---- MODULE Spec2Model ----
(***************************************************************************)
(* A model of blog_updater.py: the Word-document to HTML conversion        *)
(* (extract_content_from_docx, get_blog_title_from_docx,                   *)
(* get_blog_description_from_docx, generate_html_content), the page writer *)
(* (create_new_blog_html, update_html_file), the index updater             *)
(* (update_blogs_index, update_blog_in_index) and the two flows of main.   *)
(*                                                                         *)
(* Strings are sequences of one-character strings, so that strip, split,   *)
(* replace, endswith, slicing and int() are computed as Python computes    *)
(* them.  An HTML file is a record of the parts the code looks at: the     *)
(* div.blog-container and its element children, the div.blog-list and its  *)
(* a.blog-card anchors, and whether the file's layout is the one           *)
(* soup.prettify() produces.                                               *)
(***************************************************************************)
EXTENDS Integers, Sequences, FiniteSets, TLC

VARIABLES pc, mode, doc, html_file, overwrite, prompted, blog_title,
          blog_description, content, content_html, raised, fs, fs0, dirs,
          out, call, ret

vars == <<pc, mode, doc, html_file, overwrite, prompted, blog_title,
          blog_description, content, content_html, raised, fs, fs0, dirs,
          out, call, ret>>

(***************************************************************************)
(* Bounds of the model.                                                    *)
(***************************************************************************)
MaxSuffix == 4
MaxRuns == 2
MaxParas == 3
MaxContent == 3
MaxChildren == 2
MaxCards == 3
MaxCalls == 3

(***************************************************************************)
(* Python string operations.                                               *)
(***************************************************************************)
Whitespace == {" ", "\t", "\n"}
Digits == <<"0", "1", "2", "3", "4", "5", "6", "7", "8", "9">>

isdigit(c) == \E d \in 1..Len(Digits) : Digits[d] = c

DigitValue(c) == (CHOOSE d \in 1..Len(Digits) : Digits[d] = c) - 1

RECURSIVE lstrip(_)
lstrip(s) ==
    IF s # <<>> /\ Head(s) \in Whitespace THEN lstrip(Tail(s)) ELSE s

RECURSIVE rstrip(_)
rstrip(s) ==
    IF s # <<>> /\ s[Len(s)] \in Whitespace
    THEN rstrip(SubSeq(s, 1, Len(s) - 1))
    ELSE s

strip(s) == rstrip(lstrip(s))

startswith(s, p) == Len(p) <= Len(s) /\ SubSeq(s, 1, Len(p)) = p

endswith(s, p) ==
    Len(p) <= Len(s) /\ SubSeq(s, Len(s) - Len(p) + 1, Len(s)) = p

\* 'p in s' for strings
contains(s, p) ==
    \E i \in 0..(Len(s) - Len(p)) : SubSeq(s, i + 1, i + Len(p)) = p

\* s.replace(old, new): every non-overlapping occurrence, left to right
RECURSIVE replace(_, _, _)
replace(s, old, new) ==
    IF s = <<>> THEN <<>>
    ELSE IF startswith(s, old)
         THEN new \o replace(SubSeq(s, Len(old) + 1, Len(s)), old, new)
         ELSE <<Head(s)>> \o replace(Tail(s), old, new)

\* s.split()[-1] for a string whose last character is not whitespace
RECURSIVE last_token(_)
last_token(s) ==
    IF s = <<>> \/ s[Len(s)] \in Whitespace THEN <<>>
    ELSE last_token(SubSeq(s, 1, Len(s) - 1)) \o <<s[Len(s)]>>

ValueError == 0 - 1

RECURSIVE DecimalValue(_)
DecimalValue(t) ==
    IF t = <<>> THEN 0
    ELSE 10 * DecimalValue(SubSeq(t, 1, Len(t) - 1)) + DigitValue(t[Len(t)])

\* int(t) for a token over letters and digits: the number it denotes, or
\* ValueError when some character is not a digit
int(t) ==
    IF t # <<>> /\ \A i \in 1..Len(t) : isdigit(t[i])
    THEN DecimalValue(t)
    ELSE ValueError

\* os.path.dirname
RECURSIVE dirname(_)
dirname(p) ==
    IF p = <<>> THEN <<>>
    ELSE IF p[Len(p)] = "/" THEN SubSeq(p, 1, Len(p) - 1)
    ELSE dirname(SubSeq(p, 1, Len(p) - 1))

RECURSIVE SeqsUpTo(_, _)
SeqsUpTo(S, n) ==
    IF n = 0 THEN {<<>>}
    ELSE LET shorter == SeqsUpTo(S, n - 1)
         IN  shorter \cup {Append(s, x) : s \in shorter, x \in S}

(***************************************************************************)
(* The Word document: paragraphs in document order.  A paragraph has a     *)
(* style name and inline items; a run carries its bold flag (True, False   *)
(* or None for inherited), a hyperlink contributes text to para.text but   *)
(* is not one of para.runs.                                                *)
(***************************************************************************)
HeadingWord == <<"H", "e", "a", "d", "i", "n", "g">>
NormalStyle == <<"N", "o", "r", "m", "a", "l">>

Run(bold, text) == [kind |-> "r", bold |-> bold, text |-> text]
Hyperlink(text) == [kind |-> "hyperlink", bold |-> "None", text |-> text]
Para(style, items) == [style |-> style, items |-> items]

RECURSIVE para_text(_)
para_text(items) ==
    IF items = <<>> THEN <<>>
    ELSE Head(items).text \o para_text(Tail(items))

para_runs(items) == SelectSeq(items, LAMBDA it : it.kind = "r")

HeadingRecord(level, text) == [type |-> "heading", level |-> level, text |-> text]
ParagraphRecord(text) == [type |-> "paragraph", level |-> 0, text |-> text]

\* line 82
heading_level(style) ==
    IF isdigit(style[Len(style)]) THEN int(last_token(style)) ELSE 1

\* line 90
is_bold(para) ==
    \A i \in 1..Len(para_runs(para.items)) :
        strip(para_runs(para.items)[i].text) # <<>>
            => para_runs(para.items)[i].bold = "True"

\* lines 79-103: the record one non-title paragraph is turned into; level
\* ValueError stands for the exception int() raises
classify(para, text) ==
    IF contains(para.style, HeadingWord)
    THEN HeadingRecord(heading_level(para.style), text)
    ELSE IF is_bold(para) /\ Len(para_runs(para.items)) > 0
         THEN HeadingRecord(3, text)
         ELSE ParagraphRecord(text)

RECURSIVE extract_loop(_, _, _, _)
extract_loop(paras, i, is_first_line, acc) ==
    IF i > Len(paras) THEN [raised |-> FALSE, content |-> acc]
    ELSE LET text == strip(para_text(paras[i].items))
         IN  IF text = <<>> THEN extract_loop(paras, i + 1, is_first_line, acc)
             ELSE IF is_first_line THEN extract_loop(paras, i + 1, FALSE, acc)
             ELSE LET rec == classify(paras[i], text)
                  IN  IF rec.type = "heading" /\ rec.level = ValueError
                      THEN [raised |-> TRUE, content |-> <<>>]
                      ELSE extract_loop(paras, i + 1, FALSE, Append(acc, rec))

extract_content_from_docx(word_doc) == extract_loop(word_doc, 1, TRUE, <<>>)

UntitledBlog == <<"U", "n", "t", "i", "t", "l", "e", "d">>

RECURSIVE title_loop(_, _)
title_loop(paras, i) ==
    IF i > Len(paras) THEN UntitledBlog
    ELSE LET text == strip(para_text(paras[i].items))
         IN  IF text # <<>> THEN text ELSE title_loop(paras, i + 1)

get_blog_title_from_docx(word_doc) == title_loop(word_doc, 1)

DescLimit == 150
Ellipsis == <<".", ".", ".">>
ClickToReadMore == <<"C", "l", "i", "c", "k">> \o Ellipsis

\* a slip in the comparison: a text of exactly DescLimit characters is cut
first_150_ge(text) ==
    IF Len(text) >= DescLimit THEN SubSeq(text, 1, DescLimit) \o Ellipsis ELSE text

\* line 129
first_150(text) ==
    IF Len(text) > DescLimit THEN SubSeq(text, 1, DescLimit) \o Ellipsis ELSE text

RECURSIVE description_loop(_, _, _)
description_loop(paras, i, lines_found) ==
    IF i > Len(paras) THEN ClickToReadMore
    ELSE LET text == strip(para_text(paras[i].items))
         IN  IF text = <<>> THEN description_loop(paras, i + 1, lines_found)
             ELSE IF lines_found + 1 = 2
                  THEN first_150(text)
                  ELSE description_loop(paras, i + 1, lines_found + 1)

get_blog_description_from_docx(word_doc) == description_loop(word_doc, 1, 0)

(***************************************************************************)
(* HTML.  A fragment string is the sequence of its tokens: an element      *)
(* (tag, heading level, class, text) or a stretch of text between          *)
(* elements.  Paragraph text is taken to hold no markup of its own.        *)
(***************************************************************************)
Elem(tag, level, class, text) ==
    [kind |-> "elem", tag |-> tag, level |-> level, class |-> class, text |-> text]
TextNode(text) ==
    [kind |-> "text", tag |-> "", level |-> 0, class |-> "", text |-> text]

Indent == <<" ", " ", " ", " ">>
Newline == <<"\n">>

\* the fragment without the indentation and line break around each element
item_html_bare(item) ==
    IF item.type = "heading"
    THEN <<Elem("h", item.level, "", item.text)>>
    ELSE IF item.type = "paragraph"
         THEN <<Elem("p", 0, "", item.text)>>
         ELSE <<>>

\* lines 224-228
item_html(item) ==
    IF item.type = "heading"
    THEN <<TextNode(Indent), Elem("h", item.level, "", item.text), TextNode(Newline)>>
    ELSE IF item.type = "paragraph"
         THEN <<TextNode(Indent), Elem("p", 0, "", item.text), TextNode(Newline)>>
         ELSE <<>>

RECURSIVE generate_html_content(_)
generate_html_content(items) ==
    IF items = <<>> THEN <<>>
    ELSE item_html(Head(items)) \o generate_html_content(Tail(items))


\* BeautifulSoup(content_html, 'html.parser'): adjacent text is one node
RECURSIVE parse_fragment(_)
parse_fragment(tokens) ==
    IF Len(tokens) < 2 THEN tokens
    ELSE IF tokens[1].kind = "text" /\ tokens[2].kind = "text"
         THEN parse_fragment(<<TextNode(tokens[1].text \o tokens[2].text)>>
                                \o SubSeq(tokens, 3, Len(tokens)))
         ELSE <<tokens[1]>> \o parse_fragment(Tail(tokens))

RemoveAt(s, i) == SubSeq(s, 1, i - 1) \o SubSeq(s, i + 1, Len(s))

\* lines 317-319: the iterator walks new_soup's child list by position while
\* append() moves each element out of that list into the container
RECURSIVE append_children(_, _, _)
append_children(contents, i, container) ==
    IF i > Len(contents) THEN container
    ELSE IF contents[i].kind = "elem"
         THEN append_children(RemoveAt(contents, i), i + 1,
                              Append(container, contents[i]))
         ELSE append_children(contents, i + 1, container)

(***************************************************************************)
(* Files.  An HTML file: whether it exists, the text of its <title>,       *)
(* whether it has a div.blog-container and that div's element children,    *)
(* whether it has a div.blog-list, its a.blog-card anchors in document     *)
(* order (inside the blog-list when there is one), and whether its layout  *)
(* is the output of prettify().                                            *)
(***************************************************************************)
BlogsPrefix == <<"b", "l", "o", "g", "s", "/">>
BlogsDir == <<"b", "l", "o", "g", "s">>
blogs_index == BlogsPrefix \o <<"i", "n", "d", "e", "x", ".", "h", "t", "m", "l">>
PageA == BlogsPrefix \o <<"a">>
PageXA == BlogsPrefix \o <<"x", "a">>
LocalA == <<"a">>
Paths == {blogs_index, PageA, PageXA, LocalA}

File(head, container, children, list, cards, pretty) ==
    [exists |-> TRUE, head |-> head, container |-> container,
     children |-> children, list |-> list, cards |-> cards, pretty |-> pretty]
NoFile ==
    [exists |-> FALSE, head |-> <<>>, container |-> FALSE,
     children |-> <<>>, list |-> FALSE, cards |-> <<>>, pretty |-> FALSE]

Card(href, h3, title, description) ==
    [href |-> href, h3 |-> h3, title |-> title, description |-> description]

\* datetime.now().strftime("%B %Y")
Now == <<"N", "o", "v">>

H1(text) == Elem("h", 1, "", text)
BlogDate(text) == Elem("p", 0, "blog-date", text)

IsH1(n) == n.tag = "h" /\ n.level = 1
IsBlogDate(n) == n.tag = "p" /\ n.class = "blog-date"

\* index of the first node satisfying the test, 0 when there is none
FindH1(nodes) ==
    IF \E i \in 1..Len(nodes) : IsH1(nodes[i])
    THEN CHOOSE i \in 1..Len(nodes) :
            IsH1(nodes[i]) /\ \A j \in 1..(i - 1) : ~IsH1(nodes[j])
    ELSE 0
FindBlogDate(nodes) ==
    IF \E i \in 1..Len(nodes) : IsBlogDate(nodes[i])
    THEN CHOOSE i \in 1..Len(nodes) :
            IsBlogDate(nodes[i]) /\ \A j \in 1..(i - 1) : ~IsBlogDate(nodes[j])
    ELSE 0

elements_of(tokens) == SelectSeq(tokens, LAMBDA t : t.kind = "elem")

\* lines 236-264: the page the template renders
html_template(title, fragment) ==
    File(title, TRUE,
         <<H1(title), BlogDate(Now)>> \o elements_of(parse_fragment(fragment)),
         FALSE, <<>>, FALSE)

Result(files, r, msgs) == [fs |-> files, ret |-> r, out |-> msgs]

\* open(html_file, 'w') succeeds only in an existing directory
CanOpen(path, directories, io_ok) ==
    io_ok /\ (dirname(path) = <<>> \/ dirname(path) \in directories)

create_new_blog_html(files, directories, path, fragment, title, io_ok) ==
    IF CanOpen(path, directories, io_ok)
    THEN Result([files EXCEPT ![path] = html_template(title, fragment)],
                "True", {})
    ELSE Result(files, "False", {"Error creating file"})

\* lines 286-319: the container's children after the splice
spliced_children(children, fragment, title) ==
    LET h == FindH1(children)
        withTitle == IF h # 0 THEN [children EXCEPT ![h].text = title]
                     ELSE <<H1(title)>> \o children
        d == FindBlogDate(withTitle)
        cleared == <<>>
        titled == IF FindH1(cleared) = 0 THEN Append(cleared, H1(title))
                  ELSE Append(cleared, cleared[FindH1(cleared)])
        dated == IF d # 0 THEN Append(titled, withTitle[d]) ELSE titled
    IN  append_children(parse_fragment(fragment), 1, dated)

\* the file rewritten before the container is looked for
update_html_file_writes_first(files, path, fragment, title, io_ok) ==
    IF ~files[path].container
    THEN Result([files EXCEPT ![path].pretty = TRUE], "False",
                {"Could not find blog-container"})
    ELSE IF ~io_ok THEN Result(files, "raise", {})
    ELSE Result([files EXCEPT
                    ![path].children = spliced_children(@, fragment, title),
                    ![path].pretty = TRUE],
                "True", {})

update_html_file(files, path, fragment, title, io_ok) ==
    IF ~files[path].container
    THEN Result(files, "False", {"Could not find blog-container"})
    ELSE IF ~io_ok THEN Result(files, "raise", {})
    ELSE Result([files EXCEPT
                    ![path].children = spliced_children(@, fragment, title),
                    ![path].pretty = TRUE],
                "True", {})

link_path_of(path) == replace(path, BlogsPrefix, <<>>)

update_blogs_index(files, path, title, description, io_ok) ==
    IF ~files[blogs_index].exists
    THEN Result(files, "False", {"index not found"})
    ELSE IF ~files[blogs_index].list
    THEN Result(files, "False", {"Could not find blog-list"})
    ELSE IF ~io_ok
    THEN Result(files, "False", {"Error updating blogs index"})
    ELSE Result([files EXCEPT
                    ![blogs_index].cards =
                        Append(@, Card(link_path_of(path), TRUE, title, description)),
                    ![blogs_index].pretty = TRUE],
                "True", {})

card_matches(card, link_path) ==
    (endswith(card.href, link_path) \/ card.href = link_path) /\ card.h3

\* lines 199-210: the first card that links to the page and has an h3
find_card(cards, link_path) ==
    IF \E i \in 1..Len(cards) : card_matches(cards[i], link_path)
    THEN CHOOSE i \in 1..Len(cards) :
            /\ card_matches(cards[i], link_path)
            /\ \A j \in 1..(i - 1) : ~card_matches(cards[j], link_path)
    ELSE 0

\* the index rewritten although no card was found
update_blog_in_index_writes_on_miss(files, path, new_title, io_ok) ==
    IF ~files[blogs_index].exists
    THEN Result(files, "False", {"index not found"})
    ELSE LET c == find_card(files[blogs_index].cards, link_path_of(path))
         IN  IF c = 0
             THEN Result([files EXCEPT ![blogs_index].pretty = TRUE], "False",
                         {"Could not find blog card"})
             ELSE IF ~io_ok
             THEN Result(files, "False", {"Error updating blog in index"})
             ELSE Result([files EXCEPT
                             ![blogs_index].cards[c].title = new_title,
                             ![blogs_index].pretty = TRUE],
                         "True", {})

update_blog_in_index(files, path, new_title, io_ok) ==
    IF ~files[blogs_index].exists
    THEN Result(files, "False", {"index not found"})
    ELSE LET c == find_card(files[blogs_index].cards, link_path_of(path))
         IN  IF c = 0
             THEN Result(files, "False", {"Could not find blog card"})
             ELSE IF ~io_ok
             THEN Result(files, "False", {"Error updating blog in index"})
             ELSE Result([files EXCEPT
                             ![blogs_index].cards[c].title = new_title,
                             ![blogs_index].pretty = TRUE],
                         "True", {})


(***************************************************************************)
(* Inputs: the documents, pages and index files the runs start from.       *)
(***************************************************************************)
BoldValues == {"True", "False", "None"}
ItemTexts == {<<>>, <<" ">>, <<"A">>}
Items == {Run(b, t) : b \in BoldValues, t \in ItemTexts} \cup {Hyperlink(<<"A">>)}
ItemSeqs == SeqsUpTo(Items, MaxRuns)

SuffixChars == {" ", "1", "2", "a"}
HeadingStyles == {HeadingWord \o s : s \in SeqsUpTo(SuffixChars, MaxSuffix)}
Heading2 == HeadingWord \o <<" ", "2">>
Styles == {NormalStyle} \cup HeadingStyles

TitlePara == Para(NormalStyle, <<Run("None", <<"T">>)>>)

RichParas ==
    {Para(s, <<Run(b, <<"A">>)>>) : s \in Styles, b \in {"True", "False"}}
    \cup {Para(s, its) : s \in {NormalStyle, Heading2}, its \in ItemSeqs}

ClassifyDocs == {<<TitlePara, p>> : p \in RichParas}

LongText(n) == [i \in 1..n |-> Digits[(i % 10) + 1]]

SmallParas ==
    { Para(NormalStyle, <<>>),
      Para(NormalStyle, <<Run("None", <<" ">>)>>),
      Para(NormalStyle, <<Run("None", <<" ", "B", " ">>)>>),
      Para(NormalStyle, <<Run("True", <<"C">>)>>),
      Para(Heading2, <<Run("None", <<"D">>)>>),
      Para(HeadingWord \o <<"2">>, <<Run("None", <<"E">>)>>),
      Para(NormalStyle, <<Run("None", <<" ">> \o LongText(DescLimit) \o <<" ">>)>>),
      Para(NormalStyle, <<Run("None", <<" ">> \o LongText(DescLimit + 1) \o <<" ">>)>>) }

SmallDocs == SeqsUpTo(SmallParas, MaxParas)

Docs == ClassifyDocs \cup SmallDocs

NoCall == [fn |-> "", html_file |-> <<>>, title |-> <<>>, n |-> 0]

NoFiles == [p \in Paths |-> NoFile]

(***************************************************************************)
(* The steps of main between the prompts and the page write.               *)
(***************************************************************************)
Except ==
    /\ raised' = TRUE
    /\ out' = out \cup {"Error"}
    /\ pc' = "done"

GetBlogTitle ==
    /\ pc = "get_blog_title"
    /\ blog_title' = get_blog_title_from_docx(doc)
    /\ pc' = IF mode = <<"1">> THEN "get_blog_description" ELSE "extract_content"
    /\ UNCHANGED <<mode, doc, html_file, overwrite, prompted, blog_description,
                   content, content_html, raised, fs, fs0, dirs, out, call, ret>>

GetBlogDescription ==
    /\ pc = "get_blog_description"
    /\ blog_description' = get_blog_description_from_docx(doc)
    /\ pc' = "extract_content"
    /\ UNCHANGED <<mode, doc, html_file, overwrite, prompted, blog_title,
                   content, content_html, raised, fs, fs0, dirs, out, call, ret>>

ExtractContent ==
    /\ pc = "extract_content"
    /\ LET r == extract_content_from_docx(doc)
       IN  IF r.raised
           THEN Except /\ UNCHANGED content
           ELSE /\ content' = r.content
                /\ pc' = "generate_html"
                /\ UNCHANGED <<raised, out>>
    /\ UNCHANGED <<mode, doc, html_file, overwrite, prompted, blog_title,
                   blog_description, content_html, fs, fs0, dirs, call, ret>>

GenerateHtml ==
    /\ pc = "generate_html"
    /\ content_html' = generate_html_content(content)
    /\ pc' = IF mode = <<"1">> THEN "create_new_blog_html" ELSE "update_html_file"
    /\ UNCHANGED <<mode, doc, html_file, overwrite, prompted, blog_title,
                   blog_description, content, raised, fs, fs0, dirs, out, call, ret>>

InitDoc ==
    /\ pc = "get_blog_title"
    /\ mode = <<"1">>
    /\ doc \in Docs
    /\ html_file = PageA
    /\ overwrite = <<>>
    /\ prompted = <<>>
    /\ blog_title = <<>>
    /\ blog_description = <<>>
    /\ content = <<>>
    /\ content_html = <<>>
    /\ raised = FALSE
    /\ fs = NoFiles
    /\ fs0 = NoFiles
    /\ dirs = {}
    /\ out = {}
    /\ call = NoCall
    /\ ret = ""

NextDoc == GetBlogTitle \/ GetBlogDescription \/ ExtractContent \/ GenerateHtml

SpecDoc == InitDoc /\ [][NextDoc]_vars


(***************************************************************************)
(* The page write and the index step of main.                              *)
(***************************************************************************)
CreateNewBlogHtml ==
    /\ pc = "create_new_blog_html"
    /\ \E io_ok \in BOOLEAN :
          LET r == create_new_blog_html(fs, dirs, html_file, content_html,
                                        blog_title, io_ok)
          IN  /\ fs' = r.fs
              /\ ret' = r.ret
              /\ IF r.ret = "True"
                 THEN /\ out' = out \cup {"New blog created successfully"}
                      /\ pc' = "update_blogs_index"
                 ELSE /\ out' = out \cup r.out \cup {"Failed to create blog file"}
                      /\ pc' = "done"
    /\ UNCHANGED <<mode, doc, html_file, overwrite, prompted, blog_title,
                   blog_description, content, content_html, raised, fs0, dirs, call>>

UpdateBlogsIndex ==
    /\ pc = "update_blogs_index"
    /\ \E io_ok \in BOOLEAN :
          LET r == update_blogs_index(fs, html_file, blog_title,
                                      blog_description, io_ok)
          IN  /\ fs' = r.fs
              /\ ret' = r.ret
              /\ out' = out \cup r.out \cup
                        {IF r.ret = "True" THEN "Blogs index updated"
                         ELSE "Failed to update blogs index"}
    /\ pc' = "done"
    /\ UNCHANGED <<mode, doc, html_file, overwrite, prompted, blog_title,
                   blog_description, content, content_html, raised, fs0, dirs, call>>

UpdateHtmlFile ==
    /\ pc = "update_html_file"
    /\ \E io_ok \in BOOLEAN :
          LET r == update_html_file(fs, html_file, content_html, blog_title, io_ok)
          IN  /\ fs' = r.fs
              /\ ret' = r.ret
              /\ IF r.ret = "True"
                 THEN /\ out' = out \cup {"Blog updated successfully"}
                      /\ pc' = "update_blog_in_index"
                      /\ UNCHANGED raised
                 ELSE IF r.ret = "False"
                 THEN /\ out' = out \cup r.out \cup {"Failed to update blog file"}
                      /\ pc' = "done"
                      /\ UNCHANGED raised
                 ELSE Except
    /\ UNCHANGED <<mode, doc, html_file, overwrite, prompted, blog_title,
                   blog_description, content, content_html, fs0, dirs, call>>

UpdateBlogInIndex ==
    /\ pc = "update_blog_in_index"
    /\ \E io_ok \in BOOLEAN :
          LET r == update_blog_in_index(fs, html_file, blog_title, io_ok)
          IN  /\ fs' = r.fs
              /\ ret' = r.ret
              /\ out' = out \cup r.out \cup
                        {IF r.ret = "True" THEN "Blog title updated in index"
                         ELSE "Could not update blog title in index"}
    /\ pc' = "done"
    /\ UNCHANGED <<mode, doc, html_file, overwrite, prompted, blog_title,
                   blog_description, content, content_html, raised, fs0, dirs, call>>

(***************************************************************************)
(* update_html_file on its own: a page and a classified content are drawn  *)
(* from bounded sets, the fragment is generated and spliced in.            *)
(***************************************************************************)
OldNodes ==
    { H1(<<"O">>), BlogDate(<<"J", "a", "n">>),
      Elem("p", 0, "", <<"X">>), Elem("h", 3, "", <<"Y">>) }

Pages ==
    {File(<<"O">>, TRUE, ch, FALSE, <<>>, pr) :
        ch \in SeqsUpTo(OldNodes, MaxChildren), pr \in BOOLEAN}
    \cup {File(<<"O">>, FALSE, <<>>, FALSE, <<>>, FALSE)}

ContentItems ==
    { HeadingRecord(1, <<"A">>), HeadingRecord(3, <<"B">>),
      ParagraphRecord(<<"A">>), ParagraphRecord(<<"B">>) }

Contents == SeqsUpTo(ContentItems, MaxContent)

InitPage ==
    /\ pc = "generate_html"
    /\ mode = <<"2">>
    /\ doc = <<>>
    /\ html_file = PageA
    /\ overwrite = <<>>
    /\ prompted = <<>>
    /\ blog_title = <<"T">>
    /\ blog_description = <<>>
    /\ content \in Contents
    /\ content_html = <<>>
    /\ raised = FALSE
    /\ \E page \in Pages : fs = [NoFiles EXCEPT ![PageA] = page]
    /\ fs0 = fs
    /\ dirs = {BlogsDir}
    /\ out = {}
    /\ call = NoCall
    /\ ret = ""

NextPage == GenerateHtml \/ UpdateHtmlFile

SpecPage == InitPage /\ [][NextPage]_vars

(***************************************************************************)
(* The index updater on its own: any sequence of calls of                  *)
(* update_blogs_index and update_blog_in_index on an index file.           *)
(***************************************************************************)
PagePaths == {PageA, PageXA, LocalA}
Titles == {<<"T">>, <<"U">>}
Descriptions == {<<"D">>}

Hrefs == {<<"a">>, <<"x", "a">>}
CardSet ==
    {Card(h, TRUE, <<"T">>, <<"D">> \o h) : h \in Hrefs}
    \cup {Card(h, FALSE, <<>>, <<"D">> \o h) : h \in Hrefs}

\* the listings an index starts with hold one entry per link target
UniqueHrefs(cards) ==
    \A i, j \in 1..Len(cards) : cards[i].href = cards[j].href => i = j

IndexFiles ==
    {File(<<"I">>, FALSE, <<>>, TRUE, cards, pr) :
        cards \in {c \in SeqsUpTo(CardSet, 2) : UniqueHrefs(c)}, pr \in BOOLEAN}
    \cup {File(<<"I">>, FALSE, <<>>, FALSE, <<>>, FALSE), NoFile}

CallUpdateBlogsIndex ==
    /\ pc = "index_calls"
    /\ call.n < MaxCalls
    /\ Len(fs[blogs_index].cards) < MaxCards
    /\ \E h \in PagePaths, t \in Titles, d \in Descriptions, io_ok \in BOOLEAN :
          LET r == update_blogs_index(fs, h, t, d, io_ok)
          IN  /\ fs' = r.fs
              /\ ret' = r.ret
              /\ out' = out \cup r.out
              /\ call' = [fn |-> "update_blogs_index", html_file |-> h,
                          title |-> t, n |-> call.n + 1]
    /\ UNCHANGED <<pc, mode, doc, html_file, overwrite, prompted, blog_title,
                   blog_description, content, content_html, raised, fs0, dirs>>

CallUpdateBlogInIndex ==
    /\ pc = "index_calls"
    /\ call.n < MaxCalls
    /\ \E h \in PagePaths, t \in Titles, io_ok \in BOOLEAN :
          LET r == update_blog_in_index(fs, h, t, io_ok)
          IN  /\ fs' = r.fs
              /\ ret' = r.ret
              /\ out' = out \cup r.out
              /\ call' = [fn |-> "update_blog_in_index", html_file |-> h,
                          title |-> t, n |-> call.n + 1]
    /\ UNCHANGED <<pc, mode, doc, html_file, overwrite, prompted, blog_title,
                   blog_description, content, content_html, raised, fs0, dirs>>

InitIndex ==
    /\ pc = "index_calls"
    /\ mode = <<>>
    /\ doc = <<>>
    /\ html_file = <<>>
    /\ overwrite = <<>>
    /\ prompted = <<>>
    /\ blog_title = <<>>
    /\ blog_description = <<>>
    /\ content = <<>>
    /\ content_html = <<>>
    /\ raised = FALSE
    /\ \E index \in IndexFiles : fs = [NoFiles EXCEPT ![blogs_index] = index]
    /\ fs0 = fs
    /\ dirs = {BlogsDir}
    /\ out = {}
    /\ call = NoCall
    /\ ret = ""

NextIndex == CallUpdateBlogsIndex \/ CallUpdateBlogInIndex

SpecIndex == InitIndex /\ [][NextIndex]_vars

(***************************************************************************)
(* main: the prompts, then the steps above.  One run of the program.       *)
(***************************************************************************)
UpperCase == <<"A", "B", "C", "D", "E", "F", "G", "H", "I", "J", "K", "L", "M",
               "N", "O", "P", "Q", "R", "S", "T", "U", "V", "W", "X", "Y", "Z">>
LowerCase == <<"a", "b", "c", "d", "e", "f", "g", "h", "i", "j", "k", "l", "m",
               "n", "o", "p", "q", "r", "s", "t", "u", "v", "w", "x", "y", "z">>

lower(s) ==
    [i \in 1..Len(s) |->
        IF \E k \in 1..26 : UpperCase[k] = s[i]
        THEN LowerCase[CHOOSE k \in 1..26 : UpperCase[k] = s[i]]
        ELSE s[i]]

ModeInputs == {<<"1">>, <<"2">>, <<" ", "2">>, <<"3">>, <<>>}
PathInputs == Paths \cup {<<" ">> \o PageA}
Answers == {<<"y">>, <<"Y">>, <<" ", "y">>, <<"n">>, <<"y", "e", "s">>, <<>>}

GetUserMode ==
    /\ pc = "get_user_mode"
    /\ \E raw \in ModeInputs :
          LET choice == strip(raw)
          IN  IF choice \in {<<"1">>, <<"2">>}
              THEN /\ mode' = choice
                   /\ pc' = IF choice = <<"1">> THEN "get_new_blog_input"
                            ELSE "get_user_input"
                   /\ UNCHANGED out
              ELSE /\ out' = out \cup {"Invalid choice"}
                   /\ UNCHANGED <<mode, pc>>
    /\ UNCHANGED <<doc, html_file, overwrite, prompted, blog_title,
                   blog_description, content, content_html, raised, fs, fs0,
                   dirs, call, ret>>

\* lines 37-41 and 21-25: asked again until the named document exists
WordDocPrompt ==
    /\ pc \in {"get_new_blog_input", "get_user_input"}
    /\ \E found \in BOOLEAN :
          IF found
          THEN /\ pc' = IF pc = "get_new_blog_input" THEN "new_html_file"
                        ELSE "existing_html_file"
               /\ UNCHANGED out
          ELSE /\ out' = out \cup {"Word document not found"}
               /\ UNCHANGED pc
    /\ UNCHANGED <<mode, doc, html_file, overwrite, prompted, blog_title,
                   blog_description, content, content_html, raised, fs, fs0,
                   dirs, call, ret>>

\* the loop left whatever the answer to the overwrite prompt
overwrite_unchecked(answer) == TRUE

\* lines 57-58
overwrite_confirmed(answer) == lower(strip(answer)) = <<"y">>

\* lines 43-61: one round of the output-path loop
NewHtmlFilePrompt ==
    /\ pc = "new_html_file"
    /\ \E raw \in PathInputs, makedirs_ok \in BOOLEAN, answer \in Answers :
          LET path == strip(raw)
              directory == dirname(path)
              missing == directory # <<>> /\ directory \notin dirs
          IN  /\ html_file' = path
              /\ IF missing /\ ~makedirs_ok
                 THEN /\ out' = out \cup {"Error creating directory"}
                      /\ UNCHANGED <<pc, dirs, overwrite, prompted>>
                 ELSE /\ dirs' = IF missing THEN dirs \cup {directory} ELSE dirs
                      /\ UNCHANGED out
                      /\ IF fs[path].exists
                         THEN /\ prompted' = path
                              /\ overwrite' = lower(strip(answer))
                              /\ pc' = IF overwrite_confirmed(answer)
                                       THEN "get_blog_title" ELSE "new_html_file"
                         ELSE /\ pc' = "get_blog_title"
                              /\ UNCHANGED <<overwrite, prompted>>
    /\ UNCHANGED <<mode, doc, blog_title, blog_description, content,
                   content_html, raised, fs, fs0, call, ret>>

\* lines 27-31: asked again until the named page exists
ExistingHtmlFilePrompt ==
    /\ pc = "existing_html_file"
    /\ \E raw \in PathInputs :
          LET path == strip(raw)
          IN  /\ html_file' = path
              /\ IF fs[path].exists
                 THEN pc' = "get_blog_title" /\ UNCHANGED out
                 ELSE out' = out \cup {"File not found"} /\ UNCHANGED pc
    /\ UNCHANGED <<mode, doc, overwrite, prompted, blog_title, blog_description,
                   content, content_html, raised, fs, fs0, dirs, call, ret>>

MainDocs ==
    { <<>>,
      <<TitlePara>>,
      <<TitlePara, Para(NormalStyle, <<Run("None", <<"B">>)>>)>>,
      <<TitlePara, Para(NormalStyle, <<Run("True", <<"C">>)>>),
        Para(NormalStyle, <<Run("None", <<"B">>)>>)>>,
      <<TitlePara, Para(HeadingWord \o <<"2">>, <<Run("None", <<"E">>)>>)>> }

OldPage ==
    File(<<"O">>, TRUE,
         <<H1(<<"O">>), BlogDate(<<"J", "a", "n">>), Elem("p", 0, "", <<"X">>)>>,
         FALSE, <<>>, FALSE)
BarePage == File(<<"O">>, FALSE, <<>>, FALSE, <<>>, FALSE)

MainIndexFiles ==
    { NoFile,
      File(<<"I">>, FALSE, <<>>, FALSE, <<>>, FALSE),
      File(<<"I">>, FALSE, <<>>, TRUE, <<>>, FALSE),
      File(<<"I">>, FALSE, <<>>, TRUE,
           <<Card(<<"a">>, TRUE, <<"O">>, <<"D">>)>>, TRUE),
      File(<<"I">>, TRUE, <<H1(<<"I">>)>>, TRUE,
           <<Card(<<"x", "a">>, TRUE, <<"O">>, <<"D">>)>>, FALSE) }

FileSystems ==
    {[p \in Paths |->
        IF p = blogs_index THEN index
        ELSE IF p = PageA THEN a
        ELSE IF p = PageXA THEN xa
        ELSE local] :
        index \in MainIndexFiles, a \in {NoFile, OldPage, BarePage},
        xa \in {NoFile, OldPage}, local \in {NoFile, BarePage}}

Init ==
    /\ pc = "get_user_mode"
    /\ mode = <<>>
    /\ doc \in MainDocs
    /\ html_file = <<>>
    /\ overwrite = <<>>
    /\ prompted = <<>>
    /\ blog_title = <<>>
    /\ blog_description = <<>>
    /\ content = <<>>
    /\ content_html = <<>>
    /\ raised = FALSE
    /\ fs \in FileSystems
    /\ fs0 = fs
    /\ dirs \in {d \in SUBSET {BlogsDir} :
                    (\E p \in Paths : fs[p].exists /\ dirname(p) = BlogsDir)
                        => BlogsDir \in d}
    /\ out = {}
    /\ call = NoCall
    /\ ret = ""

Next ==
    \/ GetUserMode
    \/ WordDocPrompt
    \/ NewHtmlFilePrompt
    \/ ExistingHtmlFilePrompt
    \/ GetBlogTitle
    \/ GetBlogDescription
    \/ ExtractContent
    \/ GenerateHtml
    \/ CreateNewBlogHtml
    \/ UpdateBlogsIndex
    \/ UpdateHtmlFile
    \/ UpdateBlogInIndex

Spec == Init /\ [][Next]_vars

(***************************************************************************)
(* Properties of the document conversion.                                  *)
(***************************************************************************)
StrippedTexts(d) == [i \in 1..Len(d) |-> strip(para_text(d[i].items))]
NonEmptyParas(d) == SelectSeq(d, LAMBDA p : strip(para_text(p.items)) # <<>>)
NonEmptyTexts(d) == SelectSeq(StrippedTexts(d), LAMBDA t : t # <<>>)
\* the non-empty paragraphs after the title
BodyParas(d) == IF NonEmptyParas(d) = <<>> THEN <<>> ELSE Tail(NonEmptyParas(d))

Extracted == pc \in {"generate_html", "create_new_blog_html", "done"}
Generated == pc = "create_new_blog_html"

NonEmptyRuns(p) == SelectSeq(para_runs(p.items), LAMBDA r : strip(r.text) # <<>>)
\* the paragraph has bold text and no text run that is not bold
EntirelyBold(p) ==
    /\ NonEmptyRuns(p) # <<>>
    /\ \A i \in 1..Len(NonEmptyRuns(p)) : NonEmptyRuns(p)[i].bold = "True"

Min(a, b) == IF a < b THEN a ELSE b

\* C3: a non-title paragraph whose style name does not contain 'Heading' is
\* a level-3 heading exactly when it has non-empty runs and all of them are
\* bold; with no bold non-empty run (whitespace-only runs, no runs) it is a
\* normal paragraph.
C3_BoldIffHeading ==
    (Extracted /\ ~raised) =>
        \A i \in 1..Min(Len(content), Len(BodyParas(doc))) :
            LET p == BodyParas(doc)[i]
                text == strip(para_text(p.items))
            IN  ~contains(p.style, HeadingWord) =>
                    content[i] = IF EntirelyBold(p) THEN HeadingRecord(3, text)
                                 ELSE ParagraphRecord(text)

\* the numeral a style name ends with, 1 when it ends with none
RECURSIVE TrailingDigits(_)
TrailingDigits(s) ==
    IF s = <<>> \/ ~isdigit(s[Len(s)]) THEN <<>>
    ELSE TrailingDigits(SubSeq(s, 1, Len(s) - 1)) \o <<s[Len(s)]>>
TrailingNumeral(s) ==
    IF TrailingDigits(s) = <<>> THEN 1 ELSE DecimalValue(TrailingDigits(s))

\* C4: every non-title paragraph whose style name contains 'Heading' gives
\* a heading record whose level is the style name's trailing numeral (1
\* when there is none), whatever the style name, and no error is raised.
C4_StyleHeadingLevel ==
    (pc \notin {"get_blog_title", "get_blog_description", "extract_content"}) =>
        /\ ~raised
        /\ Len(content) = Len(BodyParas(doc))
        /\ \A i \in 1..Len(BodyParas(doc)) :
              LET p == BodyParas(doc)[i]
              IN  contains(p.style, HeadingWord) =>
                      content[i] = HeadingRecord(TrailingNumeral(p.style),
                                                 strip(para_text(p.items)))

ExpectedDescription(d) ==
    IF Len(NonEmptyTexts(d)) < 2 THEN ClickToReadMore
    ELSE IF Len(NonEmptyTexts(d)[2]) <= DescLimit THEN NonEmptyTexts(d)[2]
    ELSE SubSeq(NonEmptyTexts(d)[2], 1, DescLimit) \o Ellipsis

\* C8: the description is the trimmed second non-empty paragraph, whole when
\* at most 150 characters long and else its first 150 characters and '...';
\* a document with fewer than two non-empty paragraphs gives the fallback
\* string and an empty fragment, and raises nothing.
C8_Description ==
    /\ (pc \notin {"get_blog_title", "get_blog_description"}) =>
            blog_description = ExpectedDescription(doc)
    /\ (pc \notin {"get_blog_title", "get_blog_description", "extract_content"}
            /\ Len(NonEmptyTexts(doc)) < 2) =>
            (~raised /\ content = <<>> /\ blog_description = ClickToReadMore)
    /\ (Generated /\ Len(NonEmptyTexts(doc)) < 2) => content_html = <<>>

C8_Witness ==
    /\ Generated
    /\ Len(NonEmptyTexts(doc)) >= 2
    /\ Len(NonEmptyTexts(doc)[2]) > DescLimit
    /\ Len(blog_description) = DescLimit + 3

\* C10: extraction gives one record, heading or paragraph, per non-empty
\* paragraph after the title, in document order, and generation one element
\* per record in the same order.
C10_OneRecordPerParagraph ==
    /\ (pc \notin {"get_blog_title", "get_blog_description", "extract_content"}) =>
          /\ ~raised
          /\ Len(content) = Len(BodyParas(doc))
          /\ \A i \in 1..Len(content) :
                /\ content[i].type \in {"heading", "paragraph"}
                /\ content[i].text = strip(para_text(BodyParas(doc)[i].items))
    /\ Generated =>
          /\ Len(elements_of(content_html)) = Len(BodyParas(doc))
          /\ \A i \in 1..Len(elements_of(content_html)) :
                /\ elements_of(content_html)[i].text = content[i].text
                /\ elements_of(content_html)[i].tag
                      = IF content[i].type = "heading" THEN "h" ELSE "p"


(***************************************************************************)
(* Properties of the page splice and of the index updater.                 *)
(***************************************************************************)
ExpectedElements(items) ==
    [i \in 1..Len(items) |->
        Elem(IF items[i].type = "heading" THEN "h" ELSE "p",
             items[i].level, "", items[i].text)]

OldDates(children) == SelectSeq(children, IsBlogDate)

\* C7: after a successful update_html_file the container's element children
\* are one h1 with the new title, the old blog-date node if there was one,
\* then every element of the generated fragment in order; the rest of the
\* page and the other files are as before.
C7_Splice ==
    (pc = "update_blog_in_index") =>
        LET old == fs0[html_file]
            new == fs[html_file]
        IN  /\ new.children =
                  <<H1(blog_title)>>
                  \o (IF OldDates(old.children) # <<>>
                      THEN <<Head(OldDates(old.children))>> ELSE <<>>)
                  \o ExpectedElements(content)
            /\ new.exists /\ new.container
            /\ new.head = old.head
            /\ new.list = old.list
            /\ new.cards = old.cards
            /\ \A p \in Paths \ {html_file} : fs[p] = fs0[p]

C7_Witness ==
    /\ pc = "update_blog_in_index"
    /\ Len(content) >= 2
    /\ OldDates(fs0[html_file].children) # <<>>
    /\ Len(fs0[html_file].children) >= 2
    /\ Len(fs[html_file].children) = Len(content) + 2

\* C1: the listing holds at most one entry per link target, whatever
\* sequence of insert calls is made.
C1_OneEntryPerTarget ==
    fs[blogs_index].list => UniqueHrefs(fs[blogs_index].cards)

\* the entry's href names the page: the link path itself, or a path to it
LinksTo(href, link_path) ==
    href = link_path \/ endswith(href, <<"/">> \o link_path)

\* C5: update_blog_in_index changes only the title of the entry that links
\* to the page: the number and order of entries, every href, every
\* description and the title of every entry for another target stay, and
\* with no entry for the page it fails and writes nothing.
C5_OnlyTheEntryOfThePage ==
    [][(call'.n = call.n + 1 /\ call'.fn = "update_blog_in_index") =>
          LET link_path == link_path_of(call'.html_file)
              old == fs[blogs_index].cards
              new == fs'[blogs_index].cards
          IN  /\ Len(new) = Len(old)
              /\ \A i \in 1..Len(old) :
                    /\ new[i].href = old[i].href
                    /\ new[i].description = old[i].description
                    /\ ~LinksTo(old[i].href, link_path) => new[i].title = old[i].title
              /\ (\A i \in 1..Len(old) : ~LinksTo(old[i].href, link_path))
                    => (ret' = "False" /\ fs' = fs)
      ]_vars


(***************************************************************************)
(* Properties of the two flows of main.                                    *)
(***************************************************************************)
\* C2: update_html_file on a page without a blog-container fails and leaves
\* the page file as it was; the update flow then writes no file at all, the
\* index included.
C2_NoContainerNoWrite ==
    (mode = <<"2">> /\ pc \notin {"get_user_mode", "get_user_input", "existing_html_file"}
        /\ ~fs0[html_file].container) =>
        /\ fs = fs0
        /\ pc # "update_blog_in_index"
        /\ (pc = "done" /\ ~raised) =>
              (ret = "False" /\ "Failed to update blog file" \in out)

C2_Witness ==
    /\ mode = <<"2">>
    /\ pc = "done"
    /\ ret = "False"
    /\ fs0[html_file].exists
    /\ ~fs0[html_file].container
    /\ find_card(fs0[blogs_index].cards, link_path_of(html_file)) # 0

Created == "New blog created successfully" \in out
Declined == prompted # <<>> /\ overwrite # <<"y">>

\* create_new_blog_html writes html_file and nothing else, and an existing
\* file only when the overwrite prompt for that path was answered 'y'
WriteNeedsConfirmation ==
    (pc = "create_new_blog_html" /\ ret' = "True") =>
        /\ fs[html_file].exists => (prompted = html_file /\ overwrite = <<"y">>)
        /\ \A p \in Paths \ {html_file} : fs'[p] = fs[p]

\* C6 as amended: an existing destination is written only after the
\* overwrite prompt for that path was answered 'y' (trimmed, lower-cased);
\* any other answer writes nothing and asks for the output path again.
C6_OverwriteOnlyIfConfirmed ==
    [][/\ WriteNeedsConfirmation
       /\ (pc = "new_html_file" /\ fs[html_file'].exists /\ overwrite' # <<"y">>)
             => (pc' = "new_html_file" /\ fs' = fs /\ prompted' = html_file')
      ]_vars

C6_Witness ==
    /\ Created
    /\ fs0[html_file].exists
    /\ prompted = html_file
    /\ overwrite = <<"y">>
    /\ fs[html_file] # fs0[html_file]

\* C6: an existing destination is written only after confirmation, and a
\* declined overwrite ends the create operation with no page written.
C6_DeclineAborts ==
    /\ [][WriteNeedsConfirmation]_vars
    /\ [](Declined => ~Created)

PageSucceeded == Created \/ "Blog updated successfully" \in out
IndexSucceeded ==
    "Blogs index updated" \in out \/ "Blog title updated in index" \in out
IndexFailed ==
    \/ "Failed to update blogs index" \in out
    \/ "Could not update blog title in index" \in out

ExpectedPage ==
    IF mode = <<"1">>
    THEN File(blog_title, TRUE,
              <<H1(blog_title), BlogDate(Now)>> \o ExpectedElements(content),
              FALSE, <<>>, FALSE)
    ELSE [fs0[html_file] EXCEPT
            !.children = <<H1(blog_title)>>
                         \o (IF OldDates(@) # <<>> THEN <<Head(OldDates(@))>>
                             ELSE <<>>)
                         \o ExpectedElements(content),
            !.pretty = TRUE]

\* the index step runs only after the page write succeeded and reports its
\* own outcome; before the page write succeeds no file is modified
IndexAfterPage ==
    /\ ~PageSucceeded => fs = fs0
    /\ (IndexSucceeded \/ IndexFailed) => (PageSucceeded /\ pc = "done")
    /\ (pc = "done" /\ PageSucceeded) => (IndexSucceeded # IndexFailed)

\* C9 as amended: for a page path other than the index file, a failed index
\* step leaves the page with its new content and the index file unchanged.
C9_PageKeptIndexUnchanged ==
    /\ IndexAfterPage
    /\ (PageSucceeded /\ html_file # blogs_index) => fs[html_file] = ExpectedPage
    /\ (PageSucceeded /\ IndexFailed /\ html_file # blogs_index) =>
          fs[blogs_index] = fs0[blogs_index]

C9_Witness ==
    /\ pc = "done"
    /\ PageSucceeded
    /\ IndexFailed
    /\ html_file # blogs_index
    /\ fs[html_file] # fs0[html_file]
    /\ fs0[blogs_index].exists

\* C9: whatever the page path, a failed index step leaves the page with its
\* new content and the index file unchanged.
C9_AnyPagePath ==
    /\ IndexAfterPage
    /\ (PageSucceeded /\ IndexFailed) =>
          (fs[html_file] = ExpectedPage /\ fs[blogs_index] = fs0[blogs_index])

====
